---- MODULE Spec2Model ----
(***************************************************************************)
(* The build orchestrator of examples/menu/catalyst.py: detect the host    *)
(* OS, install the SQLite development package, compile program.c, launch   *)
(* the binary.  Every command runs in a subprocess the orchestrator waits  *)
(* for; the first non-zero return code ends the run with exit status 1.    *)
(*                                                                         *)
(* Command lines are TLA+ strings, built by concatenation exactly as the   *)
(* f-strings of the script build them.                                     *)
(***************************************************************************)
EXTENDS Integers, Sequences, FiniteSets, TLC

VARIABLES
    host,          \* the identifier platform.system() reports on this machine
    pc,            \* position of the interpreter in the script
    output_exe,    \* module global output_exe ("" before line 8 has run)
    frame,         \* the active run_command call: <<[step, cmd]>>, or <<>>
    spawned,       \* every subprocess.run call so far, in order
    returncodes,   \* the return codes of the subprocesses that have exited
    stdout,        \* the lines printed by the orchestrator
    system_reads,  \* the value of each platform.system() call, with its site
    exit_status    \* <<>> while the process runs, <<code>> once it has ended

vars == <<host, pc, output_exe, frame, spawned, returncodes, stdout,
          system_reads, exit_status>>

(* ------------------------------ bounds --------------------------------- *)

\* Largest return code a subprocess reports (127: the shell's "not found").
MaxReturnCode == 127

\* Largest signal number that kills a subprocess (return code -signal).
MaxSignal == 2

ReturnCodes == (0 - MaxSignal) .. MaxReturnCode

\* Values platform.system() can report; the last three have no branch.
OSIdentifiers == {"Windows", "Linux", "Darwin", "FreeBSD", "Java", ""}

(* ------------------------- module constants ---------------------------- *)

c_program == "program.c"

msys2_path == "F:\\msys2\\ucrt64.exe"

\* platform.system(): a property of the host, the same at every call.
platform_system == host

output_exe_for(system) ==
    IF system = "Windows" THEN "program.exe" ELSE "program"

(* --------------------------- run_command ------------------------------- *)

full_cmd_mut(cmd, use_msys) == cmd

full_cmd_of(cmd, use_msys) ==
    IF use_msys THEN msys2_path \o " -c \"" \o cmd \o "\"" ELSE cmd

CommandFailed_mut(returncode) == returncode > 0

CommandFailed(returncode) == returncode # 0

failure_exit_status_mut(returncode) == returncode % 256

failure_exit_status(returncode) == 1

after_step_skip(step) ==
    CASE step = "install" -> "launch_program"
      [] step = "build"   -> "launch_program"
      [] step = "launch"  -> "end"

after_step_nolaunch(step) ==
    CASE step = "install" -> "build_program"
      [] step = "build"   -> "end"
      [] step = "launch"  -> "end"

\* Where the script continues when the run_command call of a step returns.
after_step(step) ==
    CASE step = "install" -> "build_program"
      [] step = "build"   -> "launch_program"
      [] step = "launch"  -> "end"

pc_after_spawn_mut(step) == after_step(step)

\* subprocess.run returns only when the child has exited.
pc_after_spawn(step) == "subprocess"

\* Lines 14-20 of run_command, after the lines `printed` of the caller:
\* build full_cmd, print it, start the subprocess and wait for it.
RunCommandCall(step, cmd, use_msys, printed) ==
    LET full_cmd == full_cmd_of(cmd, use_msys) IN
    /\ stdout' = (stdout \o printed) \o <<"Running: " \o full_cmd>>
    /\ spawned' = Append(spawned, [step |-> step, cmd |-> cmd,
                                   full_cmd |-> full_cmd, use_msys |-> use_msys])
    /\ frame' = <<[step |-> step, cmd |-> cmd]>>
    /\ pc' = pc_after_spawn(step)

\* Lines 20-23: the subprocess exits with `returncode`; a failure is
\* reported and ends the process, a success returns to the caller.
SubprocessExit(returncode) ==
    /\ pc = "subprocess"
    /\ Len(frame) = 1
    /\ returncodes' = Append(returncodes, returncode)
    /\ frame' = <<>>
    /\ IF CommandFailed(returncode)
       THEN /\ stdout' = Append(stdout, "Command failed: " \o frame[1].cmd)
            /\ exit_status' = <<failure_exit_status(returncode)>>
            /\ pc' = "exited"
       ELSE /\ pc' = after_step(frame[1].step)
            /\ UNCHANGED <<stdout, exit_status>>
    /\ UNCHANGED <<host, output_exe, spawned, system_reads>>

(* ------------------------------ steps ---------------------------------- *)

\* Lines 7-11: the module globals are bound when the script is loaded.
ModuleLoad ==
    /\ pc = "module"
    /\ LET system == platform_system IN
       /\ output_exe' = output_exe_for(system)
       /\ system_reads' = Append(system_reads, <<"output_exe", system>>)
    /\ pc' = "install_sqlite"
    /\ UNCHANGED <<host, frame, spawned, returncodes, stdout, exit_status>>

is_supported_mut(system) == system # ""

is_supported(system) == system \in {"Windows", "Linux", "Darwin"}

install_cmd_mut(system) ==
    CASE system = "Windows" -> "pacman -S --needed mingw-w64-ucrt-x86_64-sqlite3"
      [] system = "Linux"   -> "sudo apt install -y libsqlite3-dev"
      [] OTHER              -> "brew install sqlite"

install_cmd(system) ==
    CASE system = "Windows" -> "pacman -S --needed mingw-w64-ucrt-x86_64-sqlite3"
      [] system = "Linux"   -> "sudo apt update && sudo apt install -y libsqlite3-dev"
      [] OTHER              -> "brew install sqlite"

install_detected(system) ==
    CASE system = "Windows" -> "Detected Windows, using MSYS2 UCRT64"
      [] system = "Linux"   -> "Detected Linux"
      [] OTHER              -> "Detected macOS"

install_use_msys(system) == system = "Windows"

install_sqlite ==
    /\ pc = "install_sqlite"
    /\ LET system == platform_system IN
       /\ system_reads' = Append(system_reads, <<"install_sqlite", system>>)
       /\ IF is_supported(system)
          THEN /\ RunCommandCall("install", install_cmd(system),
                                 install_use_msys(system),
                                 <<install_detected(system)>>)
               /\ UNCHANGED exit_status
          ELSE /\ stdout' = Append(stdout, "Unsupported OS: " \o system)
               /\ exit_status' = <<1>>
               /\ pc' = "exited"
               /\ UNCHANGED <<frame, spawned>>
    /\ UNCHANGED <<host, output_exe, returncodes>>

build_use_msys_mut(system) == FALSE

build_use_msys(system) == system = "Windows"

build_cmd == "gcc " \o c_program \o " -o " \o output_exe \o " -lsqlite3"

build_program ==
    /\ pc = "build_program"
    /\ LET system == platform_system IN
       /\ system_reads' = Append(system_reads, <<"build_program", system>>)
       /\ RunCommandCall("build", build_cmd, build_use_msys(system), <<>>)
    /\ UNCHANGED <<host, output_exe, returncodes, exit_status>>

launch_cmd_mut(exe) == "./program"

launch_cmd(exe) == "./" \o exe

launch_program ==
    /\ pc = "launch_program"
    /\ LET system == platform_system IN
       /\ system_reads' = Append(system_reads, <<"launch_program", system>>)
       /\ RunCommandCall("launch", launch_cmd(output_exe), system = "Windows",
                         <<"Launching " \o output_exe \o "...">>)
    /\ UNCHANGED <<host, output_exe, returncodes, exit_status>>

\* The end of the script: the interpreter exits with status 0.
ScriptEnd ==
    /\ pc = "end"
    /\ exit_status' = <<0>>
    /\ pc' = "exited"
    /\ UNCHANGED <<host, output_exe, frame, spawned, returncodes, stdout,
                   system_reads>>

(* --------------------------- specification ----------------------------- *)

Init ==
    /\ host \in OSIdentifiers
    /\ pc = "module"
    /\ output_exe = ""
    /\ frame = <<>>
    /\ spawned = <<>>
    /\ returncodes = <<>>
    /\ stdout = <<>>
    /\ system_reads = <<>>
    /\ exit_status = <<>>

Next ==
    \/ ModuleLoad
    \/ install_sqlite
    \/ build_program
    \/ launch_program
    \/ \E returncode \in ReturnCodes : SubprocessExit(returncode)
    \/ ScriptEnd

Spec == Init /\ [][Next]_vars

\* The interpreter always takes its next step, and (the assumption of the
\* termination claim) every spawned subprocess eventually exits.
FairSpec == Spec /\ WF_vars(Next)

(* ------------------------- string helpers ------------------------------ *)

StartsWith(s, prefix) ==
    /\ Len(prefix) <= Len(s)
    /\ SubSeq(s, 1, Len(prefix)) = prefix

EndsWith(s, suffix) ==
    /\ Len(suffix) <= Len(s)
    /\ SubSeq(s, Len(s) - Len(suffix) + 1, Len(s)) = suffix

\* Position of the first occurrence of sub in s, 0 when there is none.
IndexOf(s, sub) ==
    LET hits == {i \in 1 .. (Len(s) - Len(sub) + 1) :
                    SubSeq(s, i, i + Len(sub) - 1) = sub}
    IN IF hits = {} THEN 0
       ELSE CHOOSE i \in hits : \A j \in hits : i <= j

\* The blank-delimited word of s that starts at position i.
WordAt(s, i) ==
    LET stops == {k \in i .. Len(s) : SubSeq(s, k, k) = " "}
        last  == IF stops = {} THEN Len(s)
                 ELSE (CHOOSE k \in stops : \A j \in stops : k <= j) - 1
    IN SubSeq(s, i, last)

\* The file name that follows the -o option of a compiler command line.
NameAfterDashO(cmd) == WordAt(cmd, IndexOf(cmd, " -o ") + 4)

\* The file name that follows the leading ./ of a launch command line.
NameAfterDotSlash(cmd) == WordAt(cmd, 3)

Supported == {"Windows", "Linux", "Darwin"}

StepOrder == <<"install", "build", "launch">>

Running == Len(spawned) > Len(returncodes)

(* ------------------------------ claims --------------------------------- *)

\* C1: when the command of a step exits with a non-zero status, it is the
\* last command of the run (no command of a later step is executed) and the
\* process has terminated with a non-zero exit status.
C1_FailureAbortsRun ==
    \A i \in 1 .. Len(returncodes) :
        returncodes[i] # 0 =>
            /\ Len(spawned) = i
            /\ \A j \in 1 .. Len(spawned) :
                   spawned[j].step \in {StepOrder[k] : k \in 1 .. i}
            /\ pc = "exited"
            /\ Len(exit_status) = 1
            /\ exit_status[1] # 0

C1_Witness ==
    /\ Len(returncodes) = 2
    /\ returncodes[1] = 0
    /\ returncodes[2] < 0
    /\ spawned[2].step = "build"
    /\ pc = "exited"

\* C2: on an OS identifier other than Windows, Linux and Darwin no command
\* is ever executed, and the run ends with the unsupported-OS message and
\* exit status 1.
C2_UnsupportedOS ==
    host \notin Supported =>
        /\ spawned = <<>>
        /\ returncodes = <<>>
        /\ pc \in {"module", "install_sqlite", "exited"}
        /\ pc = "exited" =>
               /\ exit_status = <<1>>
               /\ stdout = <<"Unsupported OS: " \o host>>

C2_Witness ==
    /\ host = "FreeBSD"
    /\ pc = "exited"
    /\ stdout = <<"Unsupported OS: FreeBSD">>

\* C3: when install, build and launch all returned 0 the exit status is 0
\* and the last command executed is the launch of the built binary; exit
\* status 0 is reached only after the launch command has returned 0.
C3_Completed ==
    /\ (Len(returncodes) = 3 /\ \A i \in 1 .. 3 : returncodes[i] = 0) =>
           /\ pc \in {"end", "exited"}
           /\ pc = "exited" => exit_status = <<0>>
           /\ spawned[Len(spawned)].step = "launch"
           /\ spawned[Len(spawned)].cmd = "./" \o output_exe
    /\ exit_status = <<0>> =>
           /\ Len(spawned) = 3
           /\ spawned[3].step = "launch"
           /\ returncodes = <<0, 0, 0>>

C3_Witness ==
    /\ pc = "exited"
    /\ exit_status = <<0>>
    /\ returncodes = <<0, 0, 0>>

\* C4: the commands of a run are those of Install, Build, Launch in this
\* order, each at most once, each after the one before it returned 0.
C4_FixedOrder ==
    /\ Len(spawned) <= 3
    /\ \A i \in 1 .. Len(spawned) : spawned[i].step = StepOrder[i]
    /\ \A i \in 2 .. Len(spawned) :
           /\ Len(returncodes) >= i - 1
           /\ returncodes[i - 1] = 0
    /\ pc = "build_program" => Len(spawned) = 1
    /\ pc = "launch_program" => Len(spawned) = 2

C4_Witness ==
    /\ Len(spawned) = 3
    /\ Running
    /\ host = "Linux"

\* C5: on a supported OS the install step runs exactly one command, the
\* package-manager command of that OS.
C5_InstallCommand ==
    LET installs == {i \in 1 .. Len(spawned) : spawned[i].step = "install"} IN
    /\ Cardinality(installs) <= 1
    /\ (host \in Supported /\ pc \notin {"module", "install_sqlite"}) =>
           installs = {1}
    /\ \A i \in installs :
           /\ host = "Windows" =>
                  spawned[i].cmd = "pacman -S --needed mingw-w64-ucrt-x86_64-sqlite3"
           /\ host = "Linux" =>
                  spawned[i].cmd = "sudo apt update && sudo apt install -y libsqlite3-dev"
           /\ host = "Darwin" =>
                  spawned[i].cmd = "brew install sqlite"
           /\ host \in Supported

C5_Witness ==
    /\ host = "Linux"
    /\ Len(spawned) = 1
    /\ spawned[1].full_cmd = "sudo apt update && sudo apt install -y libsqlite3-dev"

\* C6: on Windows every command is executed as <msys2_path> -c "<cmd>" and
\* the output binary name ends in .exe; on Linux and macOS the command
\* executed is exactly the command text of the step.
C6_Wrapping ==
    /\ host = "Windows" =>
           /\ pc # "module" => EndsWith(output_exe, ".exe")
           /\ \A i \in 1 .. Len(spawned) :
                  /\ spawned[i].full_cmd =
                         "F:\\msys2\\ucrt64.exe -c \"" \o spawned[i].cmd \o "\""
                  /\ spawned[i].cmd =
                         CASE i = 1 -> "pacman -S --needed mingw-w64-ucrt-x86_64-sqlite3"
                           [] i = 2 -> "gcc program.c -o program.exe -lsqlite3"
                           [] OTHER -> "./program.exe"
    /\ host \in {"Linux", "Darwin"} =>
           /\ pc # "module" => ~EndsWith(output_exe, ".exe")
           /\ \A i \in 1 .. Len(spawned) :
                  /\ spawned[i].full_cmd = spawned[i].cmd
                  /\ ~StartsWith(spawned[i].full_cmd, "F:\\msys2\\ucrt64.exe")
                  /\ spawned[i].full_cmd =
                         CASE i = 1 -> IF host = "Linux"
                                       THEN "sudo apt update && sudo apt install -y libsqlite3-dev"
                                       ELSE "brew install sqlite"
                           [] i = 2 -> "gcc program.c -o program -lsqlite3"
                           [] OTHER -> "./program"

C6_Witness ==
    /\ host = "Windows"
    /\ Len(spawned) = 3
    /\ spawned[3].full_cmd = "F:\\msys2\\ucrt64.exe -c \"./program.exe\""

\* C7: the build command compiles program.c with -lsqlite3 into one output
\* binary, and the launch command runs the file the build command named
\* after -o; on Linux they are `gcc program.c -o program -lsqlite3` and
\* `./program`.
C7_LaunchesBuiltBinary ==
    /\ \A i \in 1 .. Len(spawned) :
           spawned[i].step = "build" =>
               /\ StartsWith(spawned[i].cmd, "gcc program.c -o ")
               /\ EndsWith(spawned[i].cmd, " -lsqlite3")
               /\ host = "Linux" =>
                      spawned[i].full_cmd = "gcc program.c -o program -lsqlite3"
    /\ \A i \in 1 .. Len(spawned) :
           spawned[i].step = "launch" =>
               /\ StartsWith(spawned[i].cmd, "./")
               /\ host = "Linux" => spawned[i].full_cmd = "./program"
               /\ \E j \in 1 .. (i - 1) :
                      /\ spawned[j].step = "build"
                      /\ NameAfterDotSlash(spawned[i].cmd) =
                             NameAfterDashO(spawned[j].cmd)

C7_Witness ==
    /\ Len(spawned) = 3
    /\ NameAfterDashO(spawned[2].cmd) = "program.exe"
    /\ NameAfterDotSlash(spawned[3].cmd) = "program.exe"

\* C8: the exit status of the process is 0 on full success and 1 on every
\* failure, whatever non-zero status the failing subprocess returned, and
\* 1 for an unsupported OS; it is never another value.
C8_ExitCode ==
    /\ exit_status \in {<<>>, <<0>>, <<1>>}
    /\ pc = "exited" <=> exit_status # <<>>
    /\ (\E i \in 1 .. Len(returncodes) : returncodes[i] # 0) =>
           exit_status = <<1>>
    /\ (pc = "exited" /\ host \notin Supported) => exit_status = <<1>>
    /\ (pc = "exited" /\ returncodes = <<0, 0, 0>>) => exit_status = <<0>>

C8_Witness ==
    /\ pc = "exited"
    /\ Len(returncodes) = 1
    /\ returncodes[1] = 127
    /\ exit_status = <<1>>

\* C9: every read of the OS identifier in one run yields the same value, so
\* the output binary name and the install, build and launch branches agree:
\* either all commands are wrapped and the binary is program.exe, or none
\* is wrapped and the binary is program.
C9_SingleOS ==
    /\ \A i \in 1 .. Len(system_reads) : system_reads[i][2] = host
    /\ \A i, j \in 1 .. Len(spawned) : spawned[i].use_msys = spawned[j].use_msys
    /\ \A i \in 1 .. Len(spawned) :
           /\ spawned[i].use_msys <=> output_exe = "program.exe"
           /\ spawned[i].use_msys <=> system_reads[1][2] = "Windows"

C9_Witness ==
    /\ Len(system_reads) = 4
    /\ host = "Windows"
    /\ system_reads[4] = <<"launch_program", "Windows">>
    /\ Len(spawned) = 3

\* C10: if every subprocess eventually exits, the run eventually ends with
\* exit status 0 or 1; once it has ended nothing more is executed; and no
\* command is started while a subprocess is still running.
C10_Terminates ==
    /\ <>(pc = "exited" /\ exit_status \in {<<0>>, <<1>>})
    /\ [][pc = "exited" =>
             (pc' = "exited" /\ exit_status' = exit_status /\ spawned' = spawned)]_vars
    /\ [][Running => spawned' = spawned]_vars

C10_Witness ==
    /\ pc = "exited"
    /\ exit_status = <<1>>
    /\ Len(returncodes) = 3
    /\ ~Running

====
